---------------------------- MODULE Spec2Model ----------------------------
(***************************************************************************)
(* A model of the qhull-rs safety layer: the error classification of       *)
(* src/src/error.rs (QhErrorKind, QhError::into_static,                    *)
(* QhError::try_on_raw) and the facade of src/src/lib.rs (Qh: compute,     *)
(* check_output, check_points, the list iterators, num_faces,              *)
(* num_vertices, vertex_index, Drop).                                      *)
(*                                                                         *)
(* The native engine (qhull_sys), the builder, the graph views of          *)
(* types.rs, IOBuffers and TmpFile are not part of src/; they are modelled *)
(* from spec.md (sections 3, 4.2, 4.3, 4.4, 4.5).                          *)
(***************************************************************************)
EXTENDS Integers, Sequences, FiniteSets

\* ------------------------------------------------------------------
\* Bounds of the model
\* ------------------------------------------------------------------
\* Largest literal an arm of define_error_kinds! may carry in the model.
MaxCode == 3
\* Largest number of arms of a define_error_kinds! invocation.
MaxKinds == 2

\* Option<T>
None == [some |-> FALSE]
Some(x) == [some |-> TRUE, val |-> x]

\* A null pointer.
NULL == 0

VARIABLES
    \* --- QhErrorKind (error.rs) ---
    table,      \* the arms `$name => $code` of the define_error_kinds! invocation
    kcode,      \* the argument of the last from_code call
    kres,       \* what from_code returned (a kind, or a panic)
    cres,       \* what error_code returned for kres
    \* --- QhError::into_static (error.rs) ---
    err,        \* a QhError value
    notices,    \* the lines eprintln! has written
    conversions,\* how many times into_static has been applied to err
    \* --- Qh::vertex_index (lib.rs) ---
    profile,    \* "debug" or "release": whether debug_assert! is compiled in
    num_points, \* qh_get_num_points
    dim,        \* Qh::dim
    vtx,        \* the Vertex view vertex_index is applied to
    idxRes,     \* what vertex_index did
    \* --- the facade Qh and its engine state (lib.rs, error.rs) ---
    state,      \* the facade's lifecycle state
    pc,         \* where the running protected call stands
    curOp,      \* the operation the running (or last) protected call serves
    calls,      \* protected calls started so far
    freeCount,  \* how many times qh_freeqhull has run
    facets,     \* qh's facet list: facet_list, facet_tail, the links, num_facets
    verts,      \* qh's vertex list: vertex_list, vertex_tail, the links, num_vertices
    err_file,   \* Qh::buffers.err_file : Option<TmpFile>
    ferr,       \* qh.ferr
    file,       \* the local `file` of try_on_raw's abort branch
    chan,       \* the temporary files: open or not, their text, the call they were created in
    nextChan,   \* the next temporary file TmpFile::new() creates
    err_code,   \* what qhull_sys__try_on_qh returned
    tracefacet, \* qh.tracefacet
    traceridge, \* qh.traceridge
    tracevertex,\* qh.tracevertex
    result,     \* what the last protected call returned
    startFile,  \* err_file when the running (or last) protected call started
    drained     \* the temporary file the last error message was read from

kindVars == <<table, kcode, kres, cres>>
staticVars == <<err, notices, conversions>>
idxVars == <<profile, num_points, dim, vtx, idxRes>>
listVars == <<facets, verts>>
chanVars == <<err_file, ferr, file, chan, nextChan>>
traceVars == <<tracefacet, traceridge, tracevertex>>
facadeVars == <<state, pc, curOp, calls, freeCount, facets, verts,
                err_file, ferr, file, chan, nextChan, err_code,
                tracefacet, traceridge, tracevertex, result, startFile, drained>>
vars == <<table, kcode, kres, cres, err, notices, conversions,
          profile, num_points, dim, vtx, idxRes,
          state, pc, curOp, calls, freeCount, facets, verts,
          err_file, ferr, file, chan, nextChan, err_code,
          tracefacet, traceridge, tracevertex, result, startFile, drained>>

\* ------------------------------------------------------------------
\* QhErrorKind  (error.rs, define_error_kinds!)
\* ------------------------------------------------------------------
\* The variants of the generated enum.
Named(n) == [tag |-> "Named", name |-> n]
Other(c) == [tag |-> "Other", code |-> c]
Panic == [tag |-> "panic"]
Unset == [tag |-> "unset"]

\* The names the arms of an invocation carry, in declaration order (an enum's
\* variants have distinct names).
KindNames == [i \in 1..MaxKinds |-> i]

\* The invocations of the macro the model covers: up to MaxKinds arms, each
\* with a literal in 1..MaxCode (two arms may carry the same literal: the
\* first one wins the match).
Tables ==
    UNION { [1..n -> 1..MaxCode] : n \in 0..MaxKinds }

\* Index of the first arm of `t` whose literal is `code`, 0 when there is none.
FirstArm(t, code) ==
    IF \E i \in DOMAIN t : t[i] = code
    THEN CHOOSE i \in DOMAIN t : t[i] = code /\ \A j \in DOMAIN t : t[j] = code => i <= j
    ELSE 0

from_code_mut_other(t, code) ==
    IF code = 0 THEN Panic
    ELSE IF FirstArm(t, code) # 0 THEN Named(KindNames[FirstArm(t, code)])
    ELSE Other(0)

\* QhErrorKind::from_code: `0 => panic!`, then the arms in order, then `_`.
from_code(t, code) ==
    IF code = 0 THEN Panic
    ELSE IF FirstArm(t, code) # 0 THEN Named(KindNames[FirstArm(t, code)])
    ELSE Other(code)

\* QhErrorKind::error_code
error_code(t, kind) ==
    IF kind.tag = "Named" THEN t[kind.name] ELSE kind.code

\* ------------------------------------------------------------------
\* Values the variables of the other parts hold while one part runs
\* ------------------------------------------------------------------
NoError == [kind |-> Unset, error_message |-> None,
            face |-> None, ridge |-> None, vertex |-> None]

StaticIdle ==
    /\ err = NoError
    /\ notices = <<>>
    /\ conversions = 0

IdxIdle ==
    /\ profile = "release"
    /\ num_points = 0
    /\ dim = 0
    /\ vtx = [sentinel |-> TRUE, point |-> None]
    /\ idxRes = Unset

\* ------------------------------------------------------------------
\* The engine's lists and temporary files
\* ------------------------------------------------------------------
\* Largest number of facets, and of vertices, the engine holds at a time
\* (the sentinel not counted).
MaxNodes == 2
\* Largest number of protected calls on one facade.
MaxCalls == 3
\* Largest number of diagnostic lines one temporary file holds.
MaxText == 2

\* The addresses of the nodes of one list.
NodeIds == 1..(MaxNodes + 1)
\* The temporary files: the one the buffers start with, one more per call.
ChanIds == 1..(MaxCalls + 1)

\* A list the engine has not created: both ends null, no node, count 0.
NoList ==
    [head |-> NULL, tail |-> NULL, sentinel |-> NULL, nodes |-> {},
     next |-> [n \in NodeIds |-> NULL], prev |-> [n \in NodeIds |-> NULL],
     num |-> 0]

\* A temporary file that does not exist.
NoChan == [open |-> FALSE, text |-> <<>>, born |-> 0]

NoResult == [tag |-> "none"]

FacadeIdle ==
    /\ state = "Unbuilt"
    /\ pc = "idle"
    /\ curOp = "none"
    /\ calls = 0
    /\ freeCount = 0
    /\ facets = NoList
    /\ verts = NoList
    /\ err_file = None
    /\ ferr = NULL
    /\ file = None
    /\ chan = [c \in ChanIds |-> NoChan]
    /\ nextChan = 1
    /\ err_code = 0
    /\ tracefacet = NULL
    /\ traceridge = NULL
    /\ tracevertex = NULL
    /\ result = NoResult
    /\ startFile = None
    /\ drained = NULL

\* Codes from_code is applied to: below, inside and above the literals.
Codes == (0 - 2)..(MaxCode + 2)

KindIdle ==
    /\ kcode = 0
    /\ kres = Unset
    /\ cres = None

KindInit ==
    /\ table \in Tables
    /\ KindIdle
    /\ StaticIdle
    /\ IdxIdle
    /\ FacadeIdle

\* A call QhErrorKind::from_code(c).
FromCode ==
    \E c \in Codes :
        /\ kres = Unset
        /\ kcode' = c
        /\ kres' = from_code(table, c)
        /\ UNCHANGED <<table, cres, staticVars, idxVars, facadeVars>>

\* A call kind.error_code() on the kind from_code returned.
ErrorCode ==
    /\ kres.tag \in {"Named", "Other"}
    /\ cres = None
    /\ cres' = Some(error_code(table, kres))
    /\ UNCHANGED <<table, kcode, kres, staticVars, idxVars, facadeVars>>

KindNext == FromCode \/ ErrorCode

SpecKind == KindInit /\ [][KindNext]_vars

\* C1 (as written): for every integer code C, from_code(C) never fails; a known
\* code yields its named variant, any other code yields Other(C), and
\* error_code() of the result is C.
C1_Original ==
    /\ kres # Unset => kres # Panic
    /\ (kres # Unset /\ cres # None) => cres.val = kcode

\* C1 (amended): for every code C other than 0, from_code(C) returns: the
\* named variant of the first arm carrying C when there is one, Other(C)
\* otherwise, and error_code() of the result is C; from_code(0) panics.
C1_FromCodeRoundTrip ==
    /\ (kres # Unset /\ kcode # 0) =>
          /\ kres # Panic
          /\ (\E i \in DOMAIN table : table[i] = kcode) =>
                 /\ kres.tag = "Named"
                 /\ table[kres.name] = kcode
          /\ (\A i \in DOMAIN table : table[i] # kcode) => kres = Other(kcode)
          /\ cres # None => cres.val = kcode
    /\ (kres # Unset /\ kcode = 0) => kres = Panic

\* A code outside the table has been classified and mapped back.
C1_Witness ==
    /\ kres.tag = "Other"
    /\ cres # None
    /\ Len(table) > 0

\* ------------------------------------------------------------------
\* QhError::into_static  (error.rs)
\* ------------------------------------------------------------------
\* Largest number of conversions applied to one error value.
MaxConversions == 2
\* Addresses a context view of an error may carry.
MaxCtx == 2

\* The line eprintln! writes for a discarded context item.
Notice(what, item) == [discarded |-> what, item |-> item]

into_static_mut_keep(e) ==
    [error |-> [kind |-> e.kind, error_message |-> e.error_message,
                face |-> None, ridge |-> e.ridge, vertex |-> None],
     emitted |->
        (IF e.face.some THEN <<Notice("face", e.face.val)>> ELSE <<>>)
        \o (IF e.ridge.some THEN <<Notice("ridge", e.ridge.val)>> ELSE <<>>)
        \o (IF e.vertex.some THEN <<Notice("vertex", e.vertex.val)>> ELSE <<>>)]

\* QhError::into_static: the converted error and the lines it writes to
\* stderr, in the order of the three `if let`.
into_static(e) ==
    [error |-> [kind |-> e.kind, error_message |-> e.error_message,
                face |-> None, ridge |-> None, vertex |-> None],
     emitted |->
        (IF e.face.some THEN <<Notice("face", e.face.val)>> ELSE <<>>)
        \o (IF e.ridge.some THEN <<Notice("ridge", e.ridge.val)>> ELSE <<>>)
        \o (IF e.vertex.some THEN <<Notice("vertex", e.vertex.val)>> ELSE <<>>)]

\* Option<view> over the addresses 1..MaxCtx.
CtxOptions == {None} \cup {Some(a) : a \in 1..MaxCtx}

\* The error values into_static is applied to.
StaticErrors ==
    [kind : {Named(1), Other(MaxCode + 1)},
     error_message : {None, Some(<<>>), Some(<<1>>)},
     face : CtxOptions, ridge : CtxOptions, vertex : CtxOptions]

\* How many context items an error carries.
ContextCount(e) ==
    (IF e.face.some THEN 1 ELSE 0) + (IF e.ridge.some THEN 1 ELSE 0)
    + (IF e.vertex.some THEN 1 ELSE 0)

StaticInit ==
    /\ table = <<>>
    /\ KindIdle
    /\ IdxIdle
    /\ FacadeIdle
    /\ err \in StaticErrors
    /\ notices = <<>>
    /\ conversions = 0

\* A call err.into_static().
IntoStatic ==
    /\ conversions < MaxConversions
    /\ err' = into_static(err).error
    /\ notices' = notices \o into_static(err).emitted
    /\ conversions' = conversions + 1
    /\ UNCHANGED <<kindVars, idxVars, facadeVars>>

StaticNext == IntoStatic

SpecStatic == StaticInit /\ [][StaticNext]_vars

\* C8: into_static keeps kind and error_message, returns face, ridge and
\* vertex absent, and writes one notice per context item that was present;
\* on an error without context it returns an equal error and writes nothing.
C8_IntoStatic ==
    [][conversions' = conversions + 1 =>
          /\ err'.kind = err.kind
          /\ err'.error_message = err.error_message
          /\ err'.face = None /\ err'.ridge = None /\ err'.vertex = None
          /\ Len(notices') = Len(notices) + ContextCount(err)
          /\ \A i \in 1..Len(notices) : notices'[i] = notices[i]
          /\ (ContextCount(err) = 0 => err' = err /\ notices' = notices)]_vars

\* An error with all three context items has been converted twice: three
\* notices from the first conversion, none from the second.
C8_Witness ==
    /\ conversions = 2
    /\ Len(notices) = 3
    /\ err.error_message # None

\* ------------------------------------------------------------------
\* Qh::vertex_index  (lib.rs)
\* ------------------------------------------------------------------
\* Largest number of input points, and largest dimension, of the model.
MaxPoints == 2
MaxDim == 2
\* std::mem::size_of::<f64>()
SizeOfF64 == 8
\* Address of the first coordinate of the input buffer (qh_get_first_point).
FirstPoint == 64

\* What vertex_index did: it returned an Option<usize>, or it panicked.
Returned(x) == [tag |-> "ret", val |-> x]

\* `ptr.add(count)` on a *const f64: the address `count` elements further.
PtrAdd(ptr, count) == ptr + count * SizeOfF64

\* The coords_holder of a facade that owns its coordinates: the Vec<f64> of
\* n * d coordinates the engine's first point refers to.
CoordsHolder(n, d) == [ptr |-> FirstPoint, len |-> n * d]

\* Qh::vertex_index
vertex_index(prof, n, d, v) ==
    LET point_size == SizeOfF64 * d
        \* qh_get_hull_dim: the builder hands the engine the facade's dim
        hull_dim == d
        first_ptr == FirstPoint
        end_ptr == PtrAdd(first_ptr, n * point_size)
        holder == CoordsHolder(n, d)
        holder_ok == /\ first_ptr = holder.ptr
                     /\ end_ptr = PtrAdd(holder.ptr, holder.len * SizeOfF64)
    IN  IF prof = "debug" /\ d # hull_dim THEN Panic
        ELSE IF prof = "debug" /\ ~holder_ok THEN Panic
        ELSE IF v.sentinel THEN Returned(None)
        ELSE IF ~v.point.some THEN Returned(None)
        ELSE LET current_ptr == v.point.val
                 diff == current_ptr - first_ptr
                 index == diff \div point_size
             IN  IF current_ptr < first_ptr \/ current_ptr >= end_ptr
                 THEN Returned(None)
                 ELSE IF diff % point_size # 0 THEN Panic
                 ELSE IF prof = "debug" /\ ~(index < n) THEN Panic
                 ELSE Returned(Some(index))

\* The coordinate pointers of the model: the f64 slots from one before the
\* input buffer to one past the range vertex_index accepts.
PointPtrs(n, d) ==
    { FirstPoint + k * SizeOfF64 :
        k \in (0 - 1)..(n * d * SizeOfF64 + 1) }

IdxInit ==
    /\ table = <<>>
    /\ KindIdle
    /\ StaticIdle
    /\ FacadeIdle
    /\ profile \in {"debug", "release"}
    /\ num_points \in 1..MaxPoints
    /\ dim \in 1..MaxDim
    /\ vtx \in [sentinel : BOOLEAN,
                point : {None} \cup {Some(p) : p \in PointPtrs(MaxPoints, MaxDim)}]
    /\ idxRes = Unset

\* A call qh.vertex_index(&vtx).
VertexIndex ==
    /\ idxRes = Unset
    /\ idxRes' = vertex_index(profile, num_points, dim, vtx)
    /\ UNCHANGED <<kindVars, staticVars, profile, num_points, dim, vtx, facadeVars>>

IdxNext == VertexIndex

SpecIdx == IdxInit /\ [][IdxNext]_vars

\* The vertex's coordinate pointer lies in the input buffer,
\* [first, first + N * D * size_of::<f64>() bytes).
InInputBuffer(p) ==
    /\ p >= FirstPoint
    /\ p < FirstPoint + num_points * dim * SizeOfF64

\* C4: vertex_index returns None for the sentinel, for a vertex without
\* coordinates and for a coordinate pointer outside the input buffer; a result
\* Some(i) has i < N; and a pointer at the storage of P[i] gives Some(i).
C4_VertexIndex ==
    idxRes # Unset =>
        /\ (vtx.sentinel \/ ~vtx.point.some \/ ~InInputBuffer(vtx.point.val))
              => idxRes = Returned(None)
        /\ (idxRes.tag = "ret" /\ idxRes.val.some) => idxRes.val.val < num_points
        /\ \A i \in 0..(num_points - 1) :
              (~vtx.sentinel /\ vtx.point = Some(FirstPoint + i * dim * SizeOfF64))
                  => idxRes = Returned(Some(i))

\* ------------------------------------------------------------------
\* The engine's doubly linked lists (spec.md 3, 4.3)
\* ------------------------------------------------------------------
\* The engine creates a list: one node, the sentinel, is head and tail.
NewList(s) ==
    [head |-> s, tail |-> s, sentinel |-> s, nodes |-> {s},
     next |-> [n \in NodeIds |-> NULL], prev |-> [n \in NodeIds |-> NULL],
     num |-> 0]

\* The engine appends node n: it is linked in right before the tail.
AppendNode(L, n) ==
    LET before == L.prev[L.tail]
    IN  [L EXCEPT
            !.nodes = @ \cup {n},
            !.next = IF before # NULL
                     THEN [@ EXCEPT ![n] = L.tail, ![before] = n]
                     ELSE [@ EXCEPT ![n] = L.tail],
            !.prev = [@ EXCEPT ![n] = before, ![L.tail] = n],
            !.head = IF before # NULL THEN @ ELSE n,
            !.num = @ + 1]

\* The engine removes node n (never the sentinel) and frees it.
RemoveNode(L, n) ==
    LET after == L.next[n]
        before == L.prev[n]
    IN  [L EXCEPT
            !.nodes = @ \ {n},
            !.next = IF before # NULL
                     THEN [@ EXCEPT ![before] = after, ![n] = NULL]
                     ELSE [@ EXCEPT ![n] = NULL],
            !.prev = [@ EXCEPT ![after] = before, ![n] = NULL],
            !.head = IF before # NULL THEN @ ELSE after,
            !.num = @ - 1]

\* ------------------------------------------------------------------
\* Graph views (spec.md 4.3) and the iterators of Qh (lib.rs)
\* ------------------------------------------------------------------
\* Face::from_ptr, Ridge::from_ptr, Vertex::from_ptr
from_ptr(raw) == IF raw = NULL THEN None ELSE Some(raw)

\* Face::next / Vertex::next
next(L, v) == from_ptr(L.next[v])

\* Face::previous / Vertex::previous
previous(L, v) == from_ptr(L.prev[v])

\* Face::is_sentinel / Vertex::is_sentinel
is_sentinel(L, v) == v = L.sentinel

\* What an iterator that has not ended after Fuel items yields next.
Diverges == 0 - 1
\* More items than a list can hold.
Fuel == MaxNodes + 2

\* std::iter::from_fn(move || current.take().map(|v| { current = v.next(); v }))
\* collected: the items from `current` on, one step of `link` at a time.
RECURSIVE from_fn(_, _, _)
from_fn(link, current, fuel) ==
    IF ~current.some THEN <<>>
    ELSE IF fuel = 0 THEN <<Diverges>>
    ELSE <<current.val>> \o from_fn(link, from_ptr(link[current.val]), fuel - 1)

\* filter(|v| !v.is_sentinel()) on a collected iterator
RECURSIVE filter_not_sentinel(_, _)
filter_not_sentinel(L, items) ==
    IF items = <<>> THEN <<>>
    ELSE (IF is_sentinel(L, Head(items)) THEN <<>> ELSE <<Head(items)>>)
         \o filter_not_sentinel(L, Tail(items))

all_faces_mut_skip ==
    IF facets.head = NULL THEN <<>>
    ELSE from_fn(facets.next, next(facets, facets.head), Fuel)

\* Qh::all_faces
all_faces == from_fn(facets.next, from_ptr(facets.head), Fuel)

all_faces_rev_mut_head == from_fn(facets.prev, from_ptr(facets.head), Fuel)

\* Qh::all_faces_rev
all_faces_rev == from_fn(facets.prev, from_ptr(facets.tail), Fuel)

faces_mut_all == all_faces

\* Qh::faces
faces == filter_not_sentinel(facets, all_faces)

\* Qh::all_vertices
all_vertices == from_fn(verts.next, from_ptr(verts.head), Fuel)

\* Qh::all_vertices_rev
all_vertices_rev == from_fn(verts.prev, from_ptr(verts.tail), Fuel)

\* Qh::vertices
vertices == filter_not_sentinel(verts, all_vertices)

\* Qh::num_faces (qh_get_num_facets)
num_faces == facets.num

\* Qh::num_vertices (qh_get_num_vertices)
num_vertices == verts.num

\* ------------------------------------------------------------------
\* The facade Qh: construction, protected calls, drop
\* ------------------------------------------------------------------
\* What a trace pointer of the engine may hold: null, or the address of a node.
TracePtrs == {NULL, 1}
\* Largest code qhull_sys__try_on_qh returns in the model (0: no abort).
MaxEngineCode == 2
EngineCodes == 0..MaxEngineCode
\* The invocations of define_error_kinds! the facade is run with: no arm, or
\* one arm for code 1 (so that codes above 1 are unrecognized).
EngineTables == {t \in Tables : Len(t) <= 1 /\ \A i \in DOMAIN t : t[i] = 1}

Rest == UNCHANGED <<kindVars, staticVars, idxVars>>

\* TmpFile::new(): temporary file c comes to exist, empty.
Created(c) == [chan EXCEPT ![c] = [open |-> TRUE, text |-> <<>>, born |-> calls]]

\* TmpFile::read_as_string_and_close(): temporary file c is closed.
Closed(c) == [chan EXCEPT ![c].open = FALSE]

\* A caller holds the facade: it was built and is not dropped.
Held == state \in {"Built", "Computed", "ComputeFailed"}

\* The engine state exists: a facade, or the shell of one under construction.
Live == state \in {"Building", "BuildFailed", "Built", "Computed", "ComputeFailed"}

Init ==
    /\ table \in EngineTables
    /\ KindIdle
    /\ StaticIdle
    /\ IdxIdle
    /\ FacadeIdle

\* QhBuilder::build_from_iter on points of different arity: no engine state
\* is created.
build_rejected ==
    /\ state = "Unbuilt"
    /\ state' = "BuildRejected"
    /\ result' = [tag |-> "DimensionMismatch"]
    /\ UNCHANGED <<pc, curOp, calls, freeCount, listVars, chanVars, err_code,
                   traceVars, startFile, drained>>
    /\ Rest

\* QhBuilder::build_managed / build_from_iter: the shell of the facade with its
\* buffers is allocated, qh.ferr refers to its err_file, and the engine's
\* construction starts under a protected call.
build ==
    /\ state = "Unbuilt"
    /\ state' = "Building"
    /\ curOp' = "build"
    /\ pc' = "engine"
    /\ calls' = calls + 1
    /\ err_file' = Some(nextChan)
    /\ ferr' = nextChan
    /\ chan' = Created(nextChan)
    /\ nextChan' = nextChan + 1
    /\ startFile' = Some(nextChan)
    /\ result' = NoResult
    /\ UNCHANGED <<freeCount, listVars, file, err_code, traceVars, drained>>
    /\ Rest

\* Qh::try_on_qh: a protected call starts on the facade.
try_on_qh(op) ==
    /\ Held
    /\ pc = "idle"
    /\ calls < MaxCalls
    /\ pc' = "engine"
    /\ curOp' = op
    /\ calls' = calls + 1
    /\ startFile' = err_file
    /\ result' = NoResult
    /\ UNCHANGED <<state, freeCount, listVars, chanVars, err_code, traceVars, drained>>
    /\ Rest

\* Qh::compute
compute == try_on_qh("compute")

\* Qh::check_output
check_output == try_on_qh("check_output")

\* Qh::check_points
check_points == try_on_qh("check_points")

\* --- the engine, inside qhull_sys__try_on_qh ---

EngineFrame ==
    /\ UNCHANGED <<state, pc, curOp, calls, freeCount, err_code, traceVars,
                   result, startFile, drained>>
    /\ Rest

\* The engine writes a diagnostic line to qh.ferr.
EngineWrite ==
    /\ pc = "engine"
    /\ ferr # NULL
    /\ chan[ferr].open
    /\ Len(chan[ferr].text) < MaxText
    /\ chan' = [chan EXCEPT ![ferr].text = Append(@, calls)]
    /\ UNCHANGED <<listVars, err_file, ferr, file, nextChan>>
    /\ EngineFrame

\* The main computation creates the two lists, each with its sentinel (the
\* first node it allocates).
EngineInitBuild ==
    /\ pc = "engine"
    /\ curOp = "compute"
    /\ facets.sentinel = NULL
    /\ facets' = NewList(1)
    /\ verts' = NewList(1)
    /\ UNCHANGED chanVars
    /\ EngineFrame

EngineAppendFacet ==
    /\ pc = "engine"
    /\ curOp = "compute"
    /\ facets.sentinel # NULL
    /\ facets.num < MaxNodes
    /\ \E n \in NodeIds \ facets.nodes : facets' = AppendNode(facets, n)
    /\ UNCHANGED <<verts, chanVars>>
    /\ EngineFrame

EngineRemoveFacet ==
    /\ pc = "engine"
    /\ curOp = "compute"
    /\ \E n \in facets.nodes \ {facets.sentinel} : facets' = RemoveNode(facets, n)
    /\ UNCHANGED <<verts, chanVars>>
    /\ EngineFrame

EngineAppendVertex ==
    /\ pc = "engine"
    /\ curOp = "compute"
    /\ verts.sentinel # NULL
    /\ verts.num < MaxNodes
    /\ \E n \in NodeIds \ verts.nodes : verts' = AppendNode(verts, n)
    /\ UNCHANGED <<facets, chanVars>>
    /\ EngineFrame

EngineRemoveVertex ==
    /\ pc = "engine"
    /\ curOp = "compute"
    /\ \E n \in verts.nodes \ {verts.sentinel} : verts' = RemoveNode(verts, n)
    /\ UNCHANGED <<facets, chanVars>>
    /\ EngineFrame

\* The state a call that completed normally leaves the facade in.
AfterOk ==
    IF curOp = "build" THEN "Built"
    ELSE IF curOp = "compute" /\ state # "ComputeFailed" THEN "Computed"
    ELSE state

\* The state a call that returned an error leaves the facade in.
AfterErr ==
    IF curOp = "build" THEN "BuildFailed"
    ELSE IF curOp = "compute" THEN "ComputeFailed"
    ELSE state

\* QhError::try_on_raw, `let err_code = ...; if err_code == 0 { Ok(..) }`:
\* the engine completes (code 0) or aborts (any other code), leaving its
\* trace pointers as they stand.
EngineReturnWith(codes, ptrs) ==
    /\ pc = "engine"
    /\ \E code \in codes, tf \in ptrs, tr \in ptrs, tv \in ptrs :
          /\ err_code' = code
          /\ tracefacet' = tf
          /\ traceridge' = tr
          /\ tracevertex' = tv
          /\ IF code = 0
             THEN /\ pc' = "idle"
                  /\ result' = [tag |-> "Ok"]
                  /\ state' = AfterOk
             ELSE /\ pc' = "abort"
                  /\ UNCHANGED <<result, state>>
    /\ UNCHANGED <<curOp, calls, freeCount, listVars, chanVars, startFile, drained>>
    /\ Rest

\* The engine returns any of its codes, its trace pointers set or null.
EngineReturn == EngineReturnWith(EngineCodes, TracePtrs)

\* The engine returns 0 or 1, its trace pointers null.
EngineReturnQuiet == EngineReturnWith({0, 1}, {NULL})

\* QhError::try_on_raw, abort branch: `let kind = from_code(err_code)` and
\* `err_file.replace(TmpFile::new().expect(..))`.
AbortReplace ==
    /\ pc = "abort"
    /\ \E created \in BOOLEAN :
          IF from_code(table, err_code) = Panic \/ ~created
          THEN /\ pc' = "panicked"
               /\ UNCHANGED chanVars
          ELSE /\ pc' = "replaced"
               /\ file' = err_file
               /\ err_file' = Some(nextChan)
               /\ chan' = Created(nextChan)
               /\ nextChan' = nextChan + 1
               /\ UNCHANGED ferr
    /\ UNCHANGED <<state, curOp, calls, freeCount, listVars, err_code, traceVars,
                   result, startFile, drained>>
    /\ Rest

AbortRepoint_mut_skip ==
    /\ pc = "replaced"
    /\ pc' = "repointed"
    /\ UNCHANGED <<state, curOp, calls, freeCount, listVars, err_file, ferr, file,
                   chan, nextChan, err_code, traceVars, result, startFile, drained>>
    /\ Rest

\* QhError::try_on_raw, abort branch: `qh.ferr = err_file...file_handle()`.
AbortRepoint ==
    /\ pc = "replaced"
    /\ pc' = "repointed"
    /\ ferr' = err_file.val
    /\ UNCHANGED <<state, curOp, calls, freeCount, listVars, err_file, file,
                   chan, nextChan, err_code, traceVars, result, startFile, drained>>
    /\ Rest

err_record_mut_ctx(kind, msg) ==
    [tag |-> "Err", kind |-> kind, error_message |-> msg,
     face |-> from_ptr(tracefacet),
     ridge |-> from_ptr(traceridge),
     vertex |-> from_ptr(traceridge)]

\* QhError::try_on_raw, abort branch: `Err(QhError { kind, error_message, .. })`.
err_record(kind, msg) ==
    [tag |-> "Err", kind |-> kind, error_message |-> msg,
     face |-> from_ptr(tracefacet),
     ridge |-> from_ptr(traceridge),
     vertex |-> from_ptr(tracevertex)]

\* QhError::try_on_raw, abort branch:
\* `file.map(|file| file.read_as_string_and_close().unwrap())` and the Err.
AbortDrain ==
    /\ pc = "repointed"
    /\ \E readable \in BOOLEAN :
          IF file.some /\ ~readable
          THEN /\ pc' = "panicked"
               /\ chan' = Closed(file.val)
               /\ UNCHANGED <<result, state, drained>>
          ELSE /\ pc' = "idle"
               /\ chan' = IF file.some THEN Closed(file.val) ELSE chan
               /\ drained' = IF file.some THEN file.val ELSE NULL
               /\ result' = err_record(from_code(table, err_code),
                                       IF file.some THEN Some(chan[file.val].text)
                                       ELSE None)
               /\ state' = AfterErr
    /\ file' = None
    /\ UNCHANGED <<curOp, calls, freeCount, listVars, err_file, ferr, nextChan,
                   err_code, traceVars, startFile>>
    /\ Rest

drop_mut_leak ==
    /\ \/ pc = "idle" /\ state \in {"Built", "Computed", "ComputeFailed", "BuildFailed"}
       \/ pc = "panicked"
    /\ state' = "Dropped"
    /\ pc' = "idle"
    /\ UNCHANGED freeCount
    /\ facets' = NoList
    /\ verts' = NoList
    /\ tracefacet' = NULL /\ traceridge' = NULL /\ tracevertex' = NULL
    /\ ferr' = NULL
    /\ err_file' = None
    /\ file' = None
    /\ chan' = [c \in ChanIds |-> [chan[c] EXCEPT !.open = FALSE]]
    /\ UNCHANGED <<curOp, calls, nextChan, err_code, result, startFile, drained>>
    /\ Rest

\* impl Drop for Qh: qh_freeqhull, then the fields (the buffers) are dropped.
\* The facade is dropped by its holder, by the builder when construction
\* failed, or by the unwinding of a panic.
drop ==
    /\ \/ pc = "idle" /\ state \in {"Built", "Computed", "ComputeFailed", "BuildFailed"}
       \/ pc = "panicked"
    /\ state' = "Dropped"
    /\ pc' = "idle"
    /\ freeCount' = freeCount + 1
    /\ facets' = NoList
    /\ verts' = NoList
    /\ tracefacet' = NULL /\ traceridge' = NULL /\ tracevertex' = NULL
    /\ ferr' = NULL
    /\ err_file' = None
    /\ file' = None
    /\ chan' = [c \in ChanIds |-> [chan[c] EXCEPT !.open = FALSE]]
    /\ UNCHANGED <<curOp, calls, nextChan, err_code, result, startFile, drained>>
    /\ Rest

\* The facade with an engine that writes diagnostics and aborts, its lists
\* left aside (no step below reads or writes them).
Next ==
    \/ build_rejected
    \/ build
    \/ compute
    \/ check_output
    \/ check_points
    \/ EngineWrite
    \/ EngineReturn
    \/ AbortReplace
    \/ AbortRepoint
    \/ AbortDrain
    \/ drop

Spec == Init /\ [][Next]_vars

\* The facade with an engine that builds and changes its lists, its
\* diagnostics left aside (no list step reads or writes a temporary file).
ListsNext ==
    \/ build_rejected
    \/ build
    \/ compute
    \/ check_output
    \/ check_points
    \/ EngineInitBuild
    \/ EngineAppendFacet
    \/ EngineRemoveFacet
    \/ EngineAppendVertex
    \/ EngineRemoveVertex
    \/ EngineReturnQuiet
    \/ AbortReplace
    \/ AbortRepoint
    \/ AbortDrain
    \/ drop

ListsInit ==
    /\ table = <<>>
    /\ KindIdle
    /\ StaticIdle
    /\ IdxIdle
    /\ FacadeIdle

SpecLists == ListsInit /\ [][ListsNext]_vars

\* ------------------------------------------------------------------
\* Properties of the lists and their iterators (under SpecLists)
\* ------------------------------------------------------------------
Reverse(seq) == [i \in 1..Len(seq) |-> seq[Len(seq) + 1 - i]]

\* How often x occurs in seq.
Count(seq, x) == Cardinality({i \in 1..Len(seq) : seq[i] = x})

\* seq ends (no Diverges), holds every node of list L exactly once and nothing
\* else, and holds L's sentinel at position `at`.
VisitsAll(L, seq, at) ==
    /\ \A i \in 1..Len(seq) : seq[i] \in L.nodes
    /\ \A n \in L.nodes : Count(seq, n) = 1
    /\ Len(seq) >= 1
    /\ seq[at] = L.sentinel

\* C2: after compute() has succeeded, and through later successful
\* check_output() / check_points(), num_faces() is the number of items of
\* faces() and num_vertices() the number of items of vertices().
C2_CountsMatch ==
    (state = "Computed" /\ pc = "idle") =>
        /\ num_faces = Len(faces)
        /\ num_vertices = Len(vertices)

\* compute() succeeded leaving two facets and one vertex, and a later
\* check_points() succeeded too.
C2_Witness ==
    /\ state = "Computed"
    /\ pc = "idle"
    /\ curOp = "check_points"
    /\ result.tag = "Ok"
    /\ num_faces = 2
    /\ num_vertices = 1

\* C3: for the facet list and the vertex list, all_faces() / all_vertices()
\* ends, yields every node other than the sentinel exactly once, and yields
\* the sentinel exactly once, as its last item (a list the engine has not
\* created has no node and yields nothing).
C3_ForwardTraversal ==
    /\ IF facets.sentinel = NULL THEN all_faces = <<>>
       ELSE VisitsAll(facets, all_faces, Len(all_faces))
    /\ IF verts.sentinel = NULL THEN all_vertices = <<>>
       ELSE VisitsAll(verts, all_vertices, Len(all_vertices))

\* Both lists hold nodes in an order that is not the order of their
\* addresses.
C3_Witness ==
    /\ all_faces = <<3, 2, 1>>
    /\ all_vertices = <<2, 1>>
    /\ pc = "idle"

\* C10: all_faces_rev() / all_vertices_rev() ends and yields the reverse of
\* what all_faces() / all_vertices() yields: the sentinel first and once,
\* every other node once.
C10_ReverseTraversal ==
    /\ all_faces_rev = Reverse(all_faces)
    /\ all_vertices_rev = Reverse(all_vertices)
    /\ IF facets.sentinel = NULL THEN all_faces_rev = <<>>
       ELSE VisitsAll(facets, all_faces_rev, 1)
    /\ IF verts.sentinel = NULL THEN all_vertices_rev = <<>>
       ELSE VisitsAll(verts, all_vertices_rev, 1)

\* Both reverse iterations yield more than the sentinel.
C10_Witness ==
    /\ all_faces_rev = <<1, 3, 2>>
    /\ all_vertices_rev = <<1, 3>>
    /\ pc = "idle"

\* ------------------------------------------------------------------
\* Properties of the lifecycle and of protected calls (under Spec)
\* ------------------------------------------------------------------
\* The iterators and queries take `&self`: they can be called whenever a
\* caller holds the facade and no protected call borrows it.
CanQuery == Held /\ pc = "idle"

\* C5: once compute() has returned an error, no compute(), check_output() or
\* check_points() runs the engine on that facade again, and only Built and
\* Computed permit iteration and queries.
C5_FailedFacadeUnusable ==
    /\ state = "ComputeFailed" => pc = "idle"
    /\ CanQuery => state \in {"Built", "Computed"}

CallEnded == Live /\ pc \in {"idle", "panicked"}

\* C7 (as written): a protected call returns Ok exactly when the engine
\* completes normally and Err exactly when it aborts.
C7_Original ==
    CallEnded =>
        /\ err_code = 0 <=> result.tag = "Ok"
        /\ err_code # 0 <=> result.tag = "Err"

\* C7 (amended): a protected call that returns returns Ok exactly when the
\* engine completed normally (code 0) and Err exactly when it aborted; the Err
\* carries the classification of the abort code, the text of the temporary
\* file that was attached during the call, and face / ridge / vertex present
\* exactly for the non-null trace pointers. A call whose engine aborted
\* panics instead of returning when the replacement temporary file cannot be
\* created or the old one cannot be read.
C7_ProtectedCall ==
    /\ (Live /\ pc = "idle") =>
          /\ result.tag \in {"Ok", "Err"}
          /\ result.tag = "Ok" <=> err_code = 0
          /\ result.tag = "Err" =>
                /\ result.kind = from_code(table, err_code)
                /\ result.kind # Panic
                /\ startFile.some
                /\ result.error_message = Some(chan[startFile.val].text)
                /\ result.face = (IF tracefacet = NULL THEN None ELSE Some(tracefacet))
                /\ result.ridge = (IF traceridge = NULL THEN None ELSE Some(traceridge))
                /\ result.vertex = (IF tracevertex = NULL THEN None ELSE Some(tracevertex))
    /\ (Live /\ pc = "panicked") => (err_code # 0 /\ result = NoResult)

\* A call aborted with a known code after the engine wrote a line, with a
\* trace facet and vertex but no trace ridge.
C7_Witness ==
    /\ pc = "idle"
    /\ result.tag = "Err"
    /\ result.kind.tag = "Named"
    /\ result.error_message.some
    /\ Len(result.error_message.val) = 1
    /\ result.face.some
    /\ ~result.ridge.some
    /\ result.vertex.some

\* The temporary files that are open.
OpenChans == {c \in ChanIds : chan[c].open}

\* C9: qh.ferr always refers to an open temporary file, also between the
\* steps of a replacement; between protected calls exactly one temporary file
\* is open, it is err_file, and qh.ferr refers to it; a call that returned Ok
\* left err_file (and qh.ferr) as it found them; a call that returned Err
\* closed the file it found and attached a new, empty one; and an error
\* message holds only lines written after the file it was read from was
\* attached.
C9_Channel ==
    /\ Live => (ferr # NULL /\ chan[ferr].open)
    /\ (Live /\ pc \in {"idle", "engine"}) =>
          /\ err_file.some
          /\ ferr = err_file.val
          /\ OpenChans = {err_file.val}
    /\ (Live /\ pc = "idle" /\ result.tag = "Ok") => err_file = startFile
    /\ (Live /\ pc = "idle" /\ result.tag = "Err") =>
          /\ err_file # startFile
          /\ chan[err_file.val].text = <<>>
          /\ chan[err_file.val].born = calls
          /\ drained = startFile.val
    /\ (result.tag = "Err" /\ result.error_message.some) =>
          \A i \in 1..Len(result.error_message.val) :
              result.error_message.val[i] > chan[drained].born

\* Two calls aborted in a row: the first message held the lines of the
\* calls up to the first abort, the second message holds only the line the
\* engine wrote during the second aborting call.
C9_Witness ==
    /\ pc = "idle"
    /\ result.tag = "Err"
    /\ nextChan = 4
    /\ chan[1].text = <<1, 2>>
    /\ drained = 2
    /\ result.error_message = Some(<<3>>)

=============================================================================
